---- MODULE Spec2Model ----
(***************************************************************************)
(* Model of the TABE online ensemble orchestrator (tabe/models/tabe.py)    *)
(* and of the dataset/loader memoization cache                             *)
(* (tabe/data_provider/dataset_loader.py).                                 *)
(***************************************************************************)
EXTENDS Integers, Sequences, FiniteSets, TLC

\* ------------------------------------------------------------------ bounds
\* largest batch size a config asks for / largest batch dimension of a window
MaxBatch == 2
\* largest number of truths (rows of data_y after the input window) of a split
MaxSteps == 2
\* cap on the history length at which further steps are still started
MaxHist == MaxSteps

\* the threads that call get_data_provider at the same time
MaxCallers == 2

\* configs.seq_len, the input window length
seq_len == 1

\* values a (scaled) target column or a prediction can take
Vals == 0 .. 1
\* an out-of-range truth value fed to a single step
Sentinel == Cardinality(Vals) + 5

\* --------------------------------------------------------------- the cache
\* split names passed as `flag`; "test_stb" is a split whose name ends in the
\* suffix that get_data_provider appends for step-by-step requests
Flags == {"test", "test_stb"}

\* the registry of dataset classes
data_dict == [d \in {"TABE_FILE", "TABE_ONLINE"} |->
                 IF d = "TABE_FILE" THEN "Dataset_TABE_File" ELSE "Dataset_TABE_Online"]

DataIds == {"TABE_FILE", "ETTh1"}
TaskNames == {"long_term_forecast", "anomaly_detection", "regression"}

\* the fields of configs that _data_provider reads and that decide its outcome
Configs == [data : DataIds, task_name : TaskNames, batch_size : 1 .. MaxBatch]

\* what a Dataset reads from its files: the target column of the split and
\* the number of samples its __len__ reports
Content(col, n) == [col |-> col, n |-> n, scale |-> TRUE]

NoObj == [id |-> 0]

\* _data_provider with the shuffle rule as it stood before step_by_step was
\* added to it, and without the held-out split in it
_data_provider_Shuffle(configs, flag, step_by_step, content, id) ==
    IF configs.data \notin DOMAIN data_dict
    THEN [raised |-> "KeyError", data_set |-> NoObj, data_loader |-> NoObj]
    ELSE LET Data == data_dict[configs.data]
             shuffle_flag == IF step_by_step THEN FALSE ELSE TRUE
             drop_last == FALSE
             batch_size == IF ~step_by_step THEN configs.batch_size ELSE 1
             branch == IF configs.task_name = "anomaly_detection" THEN "anomaly_detection"
                       ELSE IF configs.task_name = "classification" THEN "classification"
                       ELSE "forecast"
             data_set == [id |-> id, cls |-> Data, flag |-> flag, branch |-> branch,
                          col |-> content.col, n |-> content.n,
                          scale |-> content.scale]
             data_loader == [id |-> id, dataset |-> id, batch_size |-> batch_size,
                             shuffle |-> shuffle_flag, drop_last |-> drop_last]
         IN [raised |-> "", data_set |-> data_set, data_loader |-> data_loader]

\* _data_provider: build a Dataset and a DataLoader over it.  `content` is
\* what the Dataset constructor loads, `id` the identity of the new objects.
_data_provider(configs, flag, step_by_step, content, id) ==
    IF configs.data \notin DOMAIN data_dict
    THEN [raised |-> "KeyError", data_set |-> NoObj, data_loader |-> NoObj]
    ELSE LET Data == data_dict[configs.data]
             shuffle_flag == IF (flag = "test" \/ flag = "TEST" \/ step_by_step)
                             THEN FALSE ELSE TRUE
             drop_last == FALSE
             batch_size == IF ~step_by_step THEN configs.batch_size ELSE 1
             branch == IF configs.task_name = "anomaly_detection" THEN "anomaly_detection"
                       ELSE IF configs.task_name = "classification" THEN "classification"
                       ELSE "forecast"
             data_set == [id |-> id, cls |-> Data, flag |-> flag, branch |-> branch,
                          col |-> content.col, n |-> content.n,
                          scale |-> content.scale]
             data_loader == [id |-> id, dataset |-> id, batch_size |-> batch_size,
                             shuffle |-> shuffle_flag, drop_last |-> drop_last]
         IN [raised |-> "", data_set |-> data_set, data_loader |-> data_loader]

\* the cache key of a request
CacheKey(flag, step_by_step) == IF step_by_step THEN flag \o "_stb" ELSE flag

\* get_data_provider without its membership test: every call builds a pair
get_data_provider_Rebuild(cd, cl, configs, flag, step_by_step, content, id) ==
    LET key == CacheKey(flag, step_by_step)
        r == _data_provider(configs, flag, step_by_step, content, id)
    IN IF r.raised # ""
       THEN [raised |-> r.raised, cd |-> cd, cl |-> cl, built |-> FALSE,
             data_set |-> NoObj, data_loader |-> NoObj]
       ELSE [raised |-> "",
             cd |-> [k \in DOMAIN cd \cup {key} |-> IF k = key THEN r.data_set ELSE cd[k]],
             cl |-> [k \in DOMAIN cl \cup {key} |-> IF k = key THEN r.data_loader ELSE cl[k]],
             built |-> TRUE, data_set |-> r.data_set, data_loader |-> r.data_loader]

\* get_data_provider on the caches cd (_cache_dataset) and cl
\* (_cache_dataloader): the caches afterwards and what the call returns
get_data_provider(cd, cl, configs, flag, step_by_step, content, id) ==
    LET key == CacheKey(flag, step_by_step)
    IN IF key \notin DOMAIN cd
       THEN LET r == _data_provider(configs, flag, step_by_step, content, id)
            IN IF r.raised # ""
               THEN [raised |-> r.raised, cd |-> cd, cl |-> cl, built |-> FALSE,
                     data_set |-> NoObj, data_loader |-> NoObj]
               ELSE [raised |-> "",
                     cd |-> [k \in DOMAIN cd \cup {key} |->
                               IF k = key THEN r.data_set ELSE cd[k]],
                     cl |-> [k \in DOMAIN cl \cup {key} |->
                               IF k = key THEN r.data_loader ELSE cl[k]],
                     built |-> TRUE,
                     data_set |-> r.data_set, data_loader |-> r.data_loader]
       ELSE [raised |-> "", cd |-> cd, cl |-> cl, built |-> FALSE,
             data_set |-> cd[key], data_loader |-> cl[key]]

\* ------------------------------------------------------- Dataset and Loader
\* the contents a Dataset of a split can load: a target column of seq_len + T
\* rows (T truths) that alternates from either value, with a sample count n
\* equal to T, scaled by its Dataset or not, and columns whose Dataset reports
\* one sample less or one more
Column(L, s) == [i \in 1 .. L |-> (i + s) % 2]

\* a content whose Dataset holds the data as they are in the file (scale False)
Unscaled(content) == [content EXCEPT !.scale = FALSE]

Contents ==
    { Content(Column(seq_len + T, 0), T) : T \in 1 .. MaxSteps }
    \cup { Unscaled(Content(Column(seq_len + T, 1), T)) : T \in 1 .. MaxSteps }
    \cup { Content(Column(seq_len + T, 0), T + d) : T \in 1 .. MaxSteps, d \in {-1, 1} }

\* data_y[seq_len:, -1]
TruthsOf(data_set) == SubSeq(data_set.col, seq_len + 1, Len(data_set.col))

Min(a, b) == IF a < b THEN a ELSE b

\* sample i of a Dataset (1-based): the input window and the truth that follows
\* it; a slice that runs past the data is cut at the end of the data
Sample(data_set, i) ==
    [x |-> SubSeq(data_set.col, i, Min(i + seq_len - 1, Len(data_set.col))),
     y |-> data_set.col[Min(i + seq_len, Len(data_set.col))]]

\* len(data_loader): the number of batches
LoaderLen(data_set, data_loader) ==
    (data_set.n + data_loader.batch_size - 1) \div data_loader.batch_size

\* the orders in which a loader draws the samples
Orders(data_set, data_loader) ==
    IF data_loader.shuffle
    THEN { f \in [1 .. data_set.n -> 1 .. data_set.n] :
             \A i, j \in 1 .. data_set.n : i # j => f[i] # f[j] }
    ELSE { [i \in 1 .. data_set.n |-> i] }

\* batch k of a loader that draws in `order`: the tensors of its first sample
\* and its batch dimension
Batch(data_set, data_loader, order, k) ==
    LET first == (k - 1) * data_loader.batch_size + 1
        lastI == Min(k * data_loader.batch_size, data_set.n)
        s == Sample(data_set, order[first])
    IN [x |-> s.x, y |-> s.y, bx |-> lastI - first + 1, by |-> lastI - first + 1]

\* ----------------------------------------------- Combiner and Adjuster models
NVals == Cardinality(Vals)

\* combiner_model.train(): fits the combiner; its state afterwards
CombinerTrain(w) == 0

\* the combiner's one-step prediction from its state and the input window
CombinerPredict(w, win) ==
    [cbm |-> (w + win.x[Len(win.x)]) % NVals, bsm |-> <<win.x[Len(win.x)], w>>]

\* the combiner's online self-update with the now-known truth
CombinerUpdate(w, win, training) == IF training THEN win.y % NVals ELSE w

\* len(combiner_model.basemodels)
NBase == Len(CombinerPredict(0, [x |-> <<0>>, y |-> 0]).bsm)

\* the adjuster's corrected prediction from its state and the combiner's one
AdjusterPredict(b, p) == (p + b) % NVals

\* the adjuster's online update with the truth
AdjusterUpdate(b, y, p, training) == IF training THEN (y + NVals - p) % NVals ELSE b

\* adjuster_model.train(y, y_hat_cbm): one corrected prediction per input, and
\* the adjuster's state afterwards
RECURSIVE AdjusterTrain(_, _, _, _)
AdjusterTrain(b, y, y_hat_cbm, k) ==
    IF k > Len(y_hat_cbm) THEN [y_hat |-> <<>>, b |-> b]
    ELSE LET rest == AdjusterTrain(AdjusterUpdate(b, y[k], y_hat_cbm[k], TRUE),
                                   y, y_hat_cbm, k + 1)
         IN [y_hat |-> <<AdjusterPredict(b, y_hat_cbm[k])>> \o rest.y_hat, b |-> rest.b]

\* ------------------------------------------------------------------ TabeModel
Unset == [kind |-> "unset", a |-> <<>>]
None == [kind |-> "None", a |-> <<>>]
Array(a) == [kind |-> "array", a |-> a]

\* self.configs of the TabeModel
TabeConfigs == [data |-> "TABE_FILE", task_name |-> "long_term_forecast",
                batch_size |-> MaxBatch]

\* TabeModel.__init__
TabeInit(adjuster_model) ==
    [adjuster_model |-> adjuster_model, w |-> 0, b |-> 0,
     y_hat |-> None, truths |-> None, y_hat_cbm |-> Unset]

Ev(fn, training, y, p) == [fn |-> fn, training |-> training, y |-> y, p |-> p]

NoRet == [y_hat_tabe |-> 0, y_hat_adj |-> 0, y_hat_cbm |-> 0, y_hat_bsm |-> <<>>]

\* a concatenation that puts the new entry in front
Concat_Prepend(h, v) ==
    IF h.kind = "unset" THEN [raised |-> "AttributeError", h |-> h]
    ELSE IF h.kind = "None" THEN [raised |-> "ValueError", h |-> h]
    ELSE [raised |-> "", h |-> Array(<<v>> \o h.a)]

\* a concatenation that takes an attribute that holds no array for an empty one
Concat_Lenient(h, v) ==
    IF h.kind # "array" THEN [raised |-> "", h |-> Array(<<v>>)]
    ELSE [raised |-> "", h |-> Array(Append(h.a, v))]

\* an assignment of the new entry in place of the concatenation
Concat_Assign(h, v) ==
    IF h.kind = "unset" THEN [raised |-> "AttributeError", h |-> h]
    ELSE IF h.kind = "None" THEN [raised |-> "ValueError", h |-> h]
    ELSE [raised |-> "", h |-> Array(<<v>>)]

\* np.concatenate((h, np.array([v]))) on an attribute h
Concat(h, v) ==
    IF h.kind = "unset" THEN [raised |-> "AttributeError", h |-> h]
    ELSE IF h.kind = "None" THEN [raised |-> "ValueError", h |-> h]
    ELSE [raised |-> "", h |-> Array(Append(h.a, v))]

\* the appends of proceed_onestep without the one to self.truths
AppendHistory_NoTruths(sf, y, y_hat_tabe, y_hat_cbm) ==
    LET c1 == Concat(sf.y_hat_cbm, y_hat_cbm)
        c2 == Concat(sf.y_hat, y_hat_tabe)
    IN IF c1.raised # "" THEN [raised |-> c1.raised, sf |-> sf]
       ELSE IF c2.raised # ""
            THEN [raised |-> c2.raised, sf |-> [sf EXCEPT !.y_hat_cbm = c1.h]]
       ELSE [raised |-> "", sf |-> [sf EXCEPT !.y_hat_cbm = c1.h, !.y_hat = c2.h]]

\* the three appends that end proceed_onestep, in their order; the first that
\* raises ends the call
AppendHistory(sf, y, y_hat_tabe, y_hat_cbm) ==
    LET c1 == Concat(sf.y_hat_cbm, y_hat_cbm)
        c2 == Concat(sf.y_hat, y_hat_tabe)
        c3 == Concat(sf.truths, y)
    IN IF c1.raised # "" THEN [raised |-> c1.raised, sf |-> sf]
       ELSE IF c2.raised # ""
            THEN [raised |-> c2.raised, sf |-> [sf EXCEPT !.y_hat_cbm = c1.h]]
       ELSE IF c3.raised # ""
            THEN [raised |-> c3.raised,
                  sf |-> [sf EXCEPT !.y_hat_cbm = c1.h, !.y_hat = c2.h]]
       ELSE [raised |-> "",
             sf |-> [sf EXCEPT !.y_hat_cbm = c1.h, !.y_hat = c2.h, !.truths = c3.h]]

\* an adjuster step taken whether or not an Adjuster is configured
AdjustOnestep_Always(sf, y, y_hat_cbm, training) ==
    [y_hat_adj |-> AdjusterPredict(sf.b, y_hat_cbm),
     b |-> AdjusterUpdate(sf.b, y, y_hat_cbm, training), called |-> TRUE]

\* an adjuster step whose prediction is made after the update with this truth
AdjustOnestep_Leak(sf, y, y_hat_cbm, training) ==
    IF ~sf.adjuster_model
    THEN [y_hat_adj |-> y_hat_cbm, b |-> sf.b, called |-> FALSE]
    ELSE [y_hat_adj |-> AdjusterPredict(AdjusterUpdate(sf.b, y, y_hat_cbm, training),
                                        y_hat_cbm),
          b |-> AdjusterUpdate(sf.b, y, y_hat_cbm, training), called |-> TRUE]

\* the adjuster step of proceed_onestep: the adjusted prediction, the adjuster's
\* state afterwards and whether the adjuster was called
AdjustOnestep(sf, y, y_hat_cbm, training) ==
    IF ~sf.adjuster_model
    THEN [y_hat_adj |-> y_hat_cbm, b |-> sf.b, called |-> FALSE]
    ELSE [y_hat_adj |-> AdjusterPredict(sf.b, y_hat_cbm),
          b |-> AdjusterUpdate(sf.b, y, y_hat_cbm, training), called |-> TRUE]

\* proceed_onestep after its assertion with the history appended as soon as the
\* combiner has returned, before the adjuster is called
OnestepBody_EarlyAppend(sf, calls, win, training) ==
    LET y == win.y
        c == CombinerPredict(sf.w, win)
        y_hat_cbm == c.cbm
        y_hat_bsm == c.bsm
        sf1 == [sf EXCEPT !.w = CombinerUpdate(sf.w, win, training)]
        calls1 == Append(calls, Ev("combiner.proceed_onestep", training, y, 0))
        adj == AdjustOnestep(sf1, y, y_hat_cbm, training)
        y_hat_adj == adj.y_hat_adj
        sf2 == [sf1 EXCEPT !.b = adj.b]
        y_hat_tabe == y_hat_adj
        h == AppendHistory(sf2, y, y_hat_tabe, y_hat_cbm)
        calls2 == IF h.raised # "" THEN calls1
                  ELSE Append(calls1, Ev("append", training, y, y_hat_tabe))
        calls3 == IF ~adj.called THEN calls2
                  ELSE Append(calls2, Ev("adjuster.proceed_onestep", training,
                                         y, y_hat_cbm))
    IN IF h.raised # ""
       THEN [raised |-> h.raised, sf |-> h.sf, calls |-> calls3, ret |-> NoRet]
       ELSE [raised |-> "", sf |-> h.sf, calls |-> calls3,
             ret |-> [y_hat_tabe |-> y_hat_tabe, y_hat_adj |-> y_hat_adj,
                      y_hat_cbm |-> y_hat_cbm, y_hat_bsm |-> y_hat_bsm]]

\* TabeModel.proceed_onestep after its assertion, on the model sf with the call
\* log `calls`: the model afterwards, the log, what was raised, what is returned
OnestepBody(sf, calls, win, training) ==
    LET y == win.y
        c == CombinerPredict(sf.w, win)
        y_hat_cbm == c.cbm
        y_hat_bsm == c.bsm
        sf1 == [sf EXCEPT !.w = CombinerUpdate(sf.w, win, training)]
        calls1 == Append(calls, Ev("combiner.proceed_onestep", training, y, 0))
        adj == AdjustOnestep(sf1, y, y_hat_cbm, training)
        y_hat_adj == adj.y_hat_adj
        sf2 == [sf1 EXCEPT !.b = adj.b]
        calls2 == IF ~adj.called THEN calls1
                  ELSE Append(calls1, Ev("adjuster.proceed_onestep", training,
                                         y, y_hat_cbm))
        y_hat_tabe == y_hat_adj
        h == AppendHistory(sf2, y, y_hat_tabe, y_hat_cbm)
    IN IF h.raised # ""
       THEN [raised |-> h.raised, sf |-> h.sf, calls |-> calls2, ret |-> NoRet]
       ELSE [raised |-> "", sf |-> h.sf,
             calls |-> Append(calls2, Ev("append", training, y, y_hat_tabe)),
             ret |-> [y_hat_tabe |-> y_hat_tabe, y_hat_adj |-> y_hat_adj,
                      y_hat_cbm |-> y_hat_cbm, y_hat_bsm |-> y_hat_bsm]]

\* proceed_onestep without its assertion
proceed_onestep_NoAssert(sf, calls, win, training) ==
    OnestepBody(sf, Append(calls, Ev("proceed_onestep", training, win.y, 0)),
                win, training)

\* TabeModel.proceed_onestep
proceed_onestep(sf, calls, win, training) ==
    IF ~(win.bx = 1 /\ win.by = 1)
    THEN [raised |-> "AssertionError", sf |-> sf,
          calls |-> Append(calls, Ev("proceed_onestep", training, win.y, 0)),
          ret |-> NoRet]
    ELSE OnestepBody(sf, Append(calls, Ev("proceed_onestep", training, win.y, 0)),
                     win, training)

\* the loop of train() from batch t on: the combiner's prediction for every
\* batch of the loader, with the combiner's state and the call log afterwards
RECURSIVE TrainLoop(_, _, _, _, _, _, _)
TrainLoop(w, calls, data_set, data_loader, order, t, n) ==
    IF t > n THEN [w |-> w, calls |-> calls, y_hat_cbm |-> <<>>]
    ELSE LET win == Batch(data_set, data_loader, order, t)
             y_hat_t == CombinerPredict(w, win).cbm
             rest == TrainLoop(CombinerUpdate(w, win, FALSE),
                               Append(calls, Ev("combiner.proceed_onestep", FALSE, win.y, 0)),
                               data_set, data_loader, order, t + 1, n)
         IN [w |-> rest.w, calls |-> rest.calls,
             y_hat_cbm |-> <<y_hat_t>> \o rest.y_hat_cbm]

\* a store that extends the history it finds
StoreHistory_Extend(sf, y, y_hat, y_hat_cbm) ==
    [sf EXCEPT !.truths = Array(sf.truths.a \o y),
               !.y_hat = Array(sf.y_hat.a \o y_hat),
               !.y_hat_cbm = Array(sf.y_hat_cbm.a \o y_hat_cbm)]

\* the three assignments that end train()
StoreHistory(sf, y, y_hat, y_hat_cbm) ==
    [sf EXCEPT !.truths = Array(y),
               !.y_hat = Array(y_hat),
               !.y_hat_cbm = Array(y_hat_cbm)]

\* train() after its assertion: the loop, the adjuster's batch training and the
\* three assignments that store the history
TrainBody(sf0, calls0, train_dataset, train_loader, order) ==
    LET y == TruthsOf(train_dataset)
        n == LoaderLen(train_dataset, train_loader)
        loop == TrainLoop(sf0.w, calls0, train_dataset, train_loader, order, 1, n)
        y_hat_cbm == loop.y_hat_cbm
        adj == AdjusterTrain(0, y, y_hat_cbm, 1)
        y_hat == IF ~sf0.adjuster_model THEN y_hat_cbm ELSE adj.y_hat
        sf1 == [sf0 EXCEPT !.w = loop.w,
                           !.b = IF sf0.adjuster_model THEN adj.b ELSE @]
    IN [raised |-> "",
        sf |-> StoreHistory(sf1, y, y_hat, y_hat_cbm),
        calls |-> IF sf0.adjuster_model
                  THEN Append(loop.calls, Ev("adjuster.train", TRUE, 0, 0))
                  ELSE loop.calls,
        steps |-> n]

\* train() without its assertion
train_NoAssert(sf, r, order) ==
    LET sf0 == [sf EXCEPT !.w = CombinerTrain(sf.w)]
        calls0 == <<Ev("combiner.train", FALSE, 0, 0)>>
    IN IF r.raised # ""
       THEN [raised |-> r.raised, sf |-> sf0, calls |-> calls0, steps |-> 0]
       ELSE TrainBody(sf0, calls0, r.data_set, r.data_loader, order)

\* TabeModel.train; r is the outcome of its get_data_provider call and `order`
\* the order in which the loader draws
train(sf, r, order) ==
    LET sf0 == [sf EXCEPT !.w = CombinerTrain(sf.w)]
        calls0 == <<Ev("combiner.train", FALSE, 0, 0)>>
    IN IF r.raised # ""
       THEN [raised |-> r.raised, sf |-> sf0, calls |-> calls0, steps |-> 0]
       ELSE IF Len(TruthsOf(r.data_set)) # LoaderLen(r.data_set, r.data_loader)
       THEN [raised |-> "AssertionError", sf |-> sf0, calls |-> calls0, steps |-> 0]
       ELSE TrainBody(sf0, calls0, r.data_set, r.data_loader, order)

\* a step of test() that passes training = False
TestStep_NotTraining(sf, calls, win) == proceed_onestep(sf, calls, win, FALSE)

\* the call of proceed_onestep in the loop of test()
TestStep(sf, calls, win) == proceed_onestep(sf, calls, win, TRUE)

\* the loop of test() from batch t on; `out` holds the values written so far to
\* the pre-sized arrays of length size
RECURSIVE TestLoop(_, _, _, _, _, _, _, _, _)
TestLoop(sf, calls, out, data_set, data_loader, order, t, n, size) ==
    IF t > n THEN [raised |-> "", sf |-> sf, calls |-> calls, out |-> out]
    ELSE LET win == Batch(data_set, data_loader, order, t)
             res == TestStep(sf, calls, win)
         IN IF res.raised # ""
            THEN [raised |-> res.raised, sf |-> res.sf, calls |-> res.calls, out |-> out]
            ELSE IF t > size
            THEN [raised |-> "IndexError", sf |-> res.sf, calls |-> res.calls, out |-> out]
            ELSE TestLoop(res.sf, res.calls, Append(out, res.ret),
                          data_set, data_loader, order, t + 1, n, size)

\* TabeModel.test up to the end of its loop; r is the outcome of its
\* get_data_provider call.  `out` is what the loop wrote to the pre-sized arrays.
test(sf, r, order) ==
    IF r.raised # ""
    THEN [raised |-> r.raised, sf |-> sf, calls |-> <<>>, out |-> <<>>, y |-> <<>>,
          steps |-> 0]
    ELSE LET test_set == r.data_set
             test_loader == r.data_loader
             y == TruthsOf(test_set)
             n == LoaderLen(test_set, test_loader)
             loop == TestLoop(sf, <<>>, <<>>, test_set, test_loader, order, 1, n, Len(y))
         IN [raised |-> loop.raised, sf |-> loop.sf, calls |-> loop.calls,
             out |-> loop.out, y |-> y, steps |-> n]

\* what the memory of an array of np.empty holds where no step wrote: any
\* value, here one that a step can write and one that none writes
Garbage == {0, Sentinel}

\* what the arrays of test() that it returns and its loop writes (tabe_pred,
\* y_hat_cbm and the rows of y_hat_bsm) hold when they are allocated
Fills == { [i \in 1 .. 2 + NBase |-> g] : g \in Garbage }

NoFill == [i \in 1 .. 2 + NBase |-> 0]

\* an array of np.empty of length size after the loop wrote `written` to its
\* first entries
Filled(written, size, garbage) ==
    [t \in 1 .. size |-> IF t <= Len(written) THEN written[t] ELSE garbage]

\* the scaler of a Dataset: a standard deviation and a mean for every feature
\* column, the target column being the last
ScalerStd == <<3, 2>>

ScalerMean == <<5, 1>>

\* test_set.data_y.shape[1]
n_features == Len(ScalerMean)

\* test_set.inverse_transform on a matrix of n_features columns
inverse_transform(data) ==
    [t \in DOMAIN data |->
        [c \in 1 .. n_features |-> data[t][c] * ScalerStd[c] + ScalerMean[c]]]

\* an inversion that puts the series in the first column and reads it there
InvertSeries_FirstColumn(series) ==
    LET data == [t \in DOMAIN series |->
                    [c \in 1 .. n_features |-> IF c = 1 THEN series[t] ELSE 0]]
        inv == inverse_transform(data)
    IN [t \in DOMAIN series |-> inv[t][1]]

\* data = np.zeros((len(y), n_features)); data[:, -1] = series;
\* test_set.inverse_transform(data)[:, -1]
InvertSeries(series) ==
    LET data == [t \in DOMAIN series |->
                    [c \in 1 .. n_features |-> IF c = n_features THEN series[t] ELSE 0]]
        inv == inverse_transform(data)
    IN [t \in DOMAIN series |-> inv[t][n_features]]

NoTestRet == [y |-> <<>>, tabe_pred |-> <<>>, y_hat_cbm |-> <<>>, y_hat_bsm |-> <<>>,
              inverted |-> FALSE]

\* the end of test() with the inverted series stored as the history
test_return_StoreBack(res, test_set, inverse, fill) ==
    LET need_to_invert_data == test_set.scale /\ inverse
        size == Len(res.y)
        y == res.y
        tabe_pred == Filled([t \in DOMAIN res.out |-> res.out[t].y_hat_tabe], size, fill[1])
        y_hat_cbm == Filled([t \in DOMAIN res.out |-> res.out[t].y_hat_cbm], size, fill[2])
        y_hat_bsm == [i \in 1 .. NBase |->
                        Filled([t \in DOMAIN res.out |-> res.out[t].y_hat_bsm[i]],
                               size, fill[2 + i])]
    IN IF res.raised # "" THEN [sf |-> res.sf, ret |-> NoTestRet]
       ELSE IF need_to_invert_data
       THEN [sf |-> [res.sf EXCEPT !.truths = Array(InvertSeries(y)),
                                   !.y_hat = Array(InvertSeries(tabe_pred)),
                                   !.y_hat_cbm = Array(InvertSeries(y_hat_cbm))],
             ret |-> [y |-> InvertSeries(y), tabe_pred |-> InvertSeries(tabe_pred),
                      y_hat_cbm |-> InvertSeries(y_hat_cbm),
                      y_hat_bsm |-> [i \in 1 .. NBase |-> InvertSeries(y_hat_bsm[i])],
                      inverted |-> TRUE]]
       ELSE [sf |-> res.sf,
             ret |-> [y |-> y, tabe_pred |-> tabe_pred, y_hat_cbm |-> y_hat_cbm,
                      y_hat_bsm |-> y_hat_bsm, inverted |-> FALSE]]

\* TabeModel.test after its loop, whose outcome is res: the inversion of the
\* series and the return.  `inverse` is configs.inverse and fill[i] what the
\* memory of array i held.  The arrays y_hat_q_low, y_hat_q_high and
\* devi_stddev, which nothing writes, are returned as they were allocated and
\* are not among the series here.
test_return(res, test_set, inverse, fill) ==
    LET need_to_invert_data == test_set.scale /\ inverse
        size == Len(res.y)
        y == res.y
        tabe_pred == Filled([t \in DOMAIN res.out |-> res.out[t].y_hat_tabe], size, fill[1])
        y_hat_cbm == Filled([t \in DOMAIN res.out |-> res.out[t].y_hat_cbm], size, fill[2])
        y_hat_bsm == [i \in 1 .. NBase |->
                        Filled([t \in DOMAIN res.out |-> res.out[t].y_hat_bsm[i]],
                               size, fill[2 + i])]
    IN IF res.raised # "" THEN [sf |-> res.sf, ret |-> NoTestRet]
       ELSE IF need_to_invert_data
       THEN [sf |-> res.sf,
             ret |-> [y |-> InvertSeries(y), tabe_pred |-> InvertSeries(tabe_pred),
                      y_hat_cbm |-> InvertSeries(y_hat_cbm),
                      y_hat_bsm |-> [i \in 1 .. NBase |-> InvertSeries(y_hat_bsm[i])],
                      inverted |-> TRUE]]
       ELSE [sf |-> res.sf,
             ret |-> [y |-> y, tabe_pred |-> tabe_pred, y_hat_cbm |-> y_hat_cbm,
                      y_hat_bsm |-> y_hat_bsm, inverted |-> FALSE]]

VARIABLES
    _cache_dataset,     \* key -> Dataset
    _cache_dataloader,  \* key -> DataLoader
    nextId,             \* identity given to the next pair of objects built
    lastReq,            \* the most recent get_data_provider call and its result
    firstPair,          \* (flag, step_by_step) -> the pair its first request returned
    self,               \* the TabeModel: its attributes and its two collaborators
    last,               \* the most recent TabeModel call, its outcome and its calls
    callers             \* the get_data_provider calls of concurrent threads

vars == <<_cache_dataset, _cache_dataloader, nextId, lastReq, firstPair, self, last,
          callers>>

cacheVars == <<_cache_dataset, _cache_dataloader, nextId, lastReq, firstPair, callers>>

Callers == 1 .. MaxCallers

\* a thread that has not called get_data_provider
Idle == [pc |-> "idle", flag |-> "", step_by_step |-> FALSE, absent |-> FALSE,
         overlapped |-> FALSE, raised |-> "",
         built_set |-> NoObj, built_loader |-> NoObj,
         data_set |-> NoObj, data_loader |-> NoObj]

EmptyMap == [k \in {} |-> NoObj]

NoReq == [flag |-> "", step_by_step |-> FALSE,
          configs |-> [data |-> "", task_name |-> "", batch_size |-> 0],
          raised |-> "", built |-> FALSE, hit |-> FALSE,
          data_set |-> NoObj, data_loader |-> NoObj]

\* the content every Dataset built by a plain cache request loads
DefaultContent == Content(<<0, 1>>, 1)

InitCache ==
    /\ _cache_dataset = EmptyMap
    /\ _cache_dataloader = EmptyMap
    /\ nextId = 1
    /\ lastReq = NoReq
    /\ firstPair = [p \in {} |-> <<NoObj, NoObj>>]
    /\ callers = [c \in Callers |-> Idle]

\* the effect on the module-level caches of one call of get_data_provider whose
\* result is r
CacheEffect(r, configs, flag, step_by_step) ==
    LET p == <<flag, step_by_step>>
    IN /\ _cache_dataset' = r.cd
       /\ _cache_dataloader' = r.cl
       /\ nextId' = IF r.built THEN nextId + 1 ELSE nextId
       /\ lastReq' = [flag |-> flag, step_by_step |-> step_by_step, configs |-> configs,
                      raised |-> r.raised, built |-> r.built,
                      hit |-> CacheKey(flag, step_by_step) \in DOMAIN _cache_dataset,
                      data_set |-> r.data_set, data_loader |-> r.data_loader]
       /\ firstPair' = IF r.raised = "" /\ p \notin DOMAIN firstPair
                       THEN [q \in DOMAIN firstPair \cup {p} |->
                               IF q = p THEN <<r.data_set, r.data_loader>>
                               ELSE firstPair[q]]
                       ELSE firstPair
       /\ UNCHANGED callers

\* one call get_data_provider(configs, flag, step_by_step) by any caller
Request(configs, flag, step_by_step) ==
    /\ CacheEffect(get_data_provider(_cache_dataset, _cache_dataloader, configs, flag,
                                     step_by_step, DefaultContent, nextId),
                   configs, flag, step_by_step)
    /\ UNCHANGED <<self, last>>

RequestAny ==
    \E configs \in Configs, flag \in Flags, step_by_step \in BOOLEAN :
        Request(configs, flag, step_by_step)

\* ------------------------------------------------------------------- actions
NoLast == [op |-> "init", raised |-> "", calls |-> <<>>, steps |-> 0, before |-> 0]

\* the number of entries an attribute of the history holds
HLen(h) == IF h.kind = "array" THEN Len(h.a) ELSE 0

HistLen == HLen(self.truths)

InitTabe ==
    /\ self \in { TabeInit(a) : a \in BOOLEAN }
    /\ last = NoLast

Init == InitCache /\ InitTabe

\* the windows a caller can pass to proceed_onestep
\* (the batch dimensions are checked before the tensors are read, so the
\* windows of a wrong batch dimension all carry the same tensors)
Windows ==
    [x : [1 .. seq_len -> Vals], y : Vals \cup {Sentinel}, bx : {1}, by : {1}]
    \cup { [x |-> [i \in 1 .. seq_len |-> 0], y |-> 0, bx |-> bx, by |-> by] :
             bx \in {1, MaxBatch}, by \in {1, MaxBatch} }

\* the training flags a caller passes with a window
Trainings(win) == IF win.bx = 1 /\ win.by = 1 THEN BOOLEAN ELSE {FALSE}

\* what a Dataset built now would load: it is read only on a cache miss
Loadable(flag) ==
    IF CacheKey(flag, TRUE) \in DOMAIN _cache_dataset THEN {DefaultContent} ELSE Contents

\* a call of train()
Train ==
    \E content \in Loadable("ensemble_train") :
        \E r \in {get_data_provider(_cache_dataset, _cache_dataloader, TabeConfigs,
                                     "ensemble_train", TRUE, content, nextId)} :
           \E order \in Orders(r.data_set, r.data_loader) :
            \E res \in {train(self, r, order)} :
               /\ CacheEffect(r, TabeConfigs, "ensemble_train", TRUE)
               /\ self' = res.sf
               /\ last' = [op |-> "train", raised |-> res.raised, calls |-> res.calls,
                           steps |-> res.steps, before |-> HistLen]

\* a call of test()
Test ==
    /\ HistLen <= MaxHist
    /\ \E content \in Loadable("test") :
        \E r \in {get_data_provider(_cache_dataset, _cache_dataloader, TabeConfigs,
                                     "test", TRUE, content, nextId)} :
           \E order \in Orders(r.data_set, r.data_loader) :
            \E res \in {test(self, r, order)} :
               \E inverse \in BOOLEAN :
               \E fill \in IF res.raised = "" /\ Len(res.out) < Len(res.y)
                            THEN Fills ELSE {NoFill} :
               \E end \in {test_return(res, r.data_set, inverse, fill)} :
                   /\ CacheEffect(r, TabeConfigs, "test", TRUE)
                   /\ self' = end.sf
                   /\ last' = [op |-> "test", raised |-> res.raised,
                               calls |-> res.calls, steps |-> res.steps,
                               before |-> HistLen, out |-> res.out, y |-> res.y,
                               ret |-> end.ret]

\* a call of proceed_onestep() by the owner of the model
Onestep ==
    /\ HistLen < MaxHist
    /\ \E win \in Windows : \E training \in Trainings(win) :
        \E res \in {proceed_onestep(self, <<>>, win, training)} :
           /\ self' = res.sf
           /\ last' = [op |-> "proceed_onestep", raised |-> res.raised,
                       calls |-> res.calls, steps |-> 1, before |-> HistLen,
                       win |-> win,
                       training |-> training, ret |-> res.ret]
           /\ UNCHANGED cacheVars

Next == Train \/ Test \/ Onestep

Spec == Init /\ [][Next]_vars

NextCache == RequestAny

\* the caches as the module is imported, before any TabeModel acts
InitModule == InitCache /\ self = TabeInit(FALSE) /\ last = NoLast

SpecCache == InitModule /\ [][NextCache]_vars

\* ------------------------------------------------- concurrent get_data_provider
\* get_data_provider run by threads that share the module-level caches.  A
\* thread can be preempted between any two of its steps: the membership test,
\* the call of _data_provider, the two stores of the tuple assignment (the
\* Dataset first) and the two reads of the return statement.

InCall(c) == callers[c].pc \notin {"idle", "done", "raised"}

KeyOf(c) == CacheKey(callers[c].flag, callers[c].step_by_step)

\* a membership test that always reports the key absent
KeyAbsent_Always(cd, key) == TRUE

\* key not in _cache_dataset
KeyAbsent(cd, key) == key \notin DOMAIN cd

\* dict[key] = value
Store(dict, key, value) ==
    [k \in DOMAIN dict \cup {key} |-> IF k = key THEN value ELSE dict[k]]

\* thread c calls get_data_provider(configs, flag, step_by_step)
Call(c) ==
    /\ callers[c].pc = "idle"
    /\ \E flag \in Flags, step_by_step \in BOOLEAN :
         callers' = [d \in Callers |->
                       IF d = c
                       THEN [Idle EXCEPT !.pc = "check", !.flag = flag,
                                         !.step_by_step = step_by_step,
                                         !.overlapped = \E e \in Callers : InCall(e)]
                       ELSE IF InCall(d) THEN [callers[d] EXCEPT !.overlapped = TRUE]
                       ELSE callers[d]]
    /\ UNCHANGED <<_cache_dataset, _cache_dataloader, nextId, lastReq, firstPair,
                   self, last>>

\* the membership test of thread c
Check(c) ==
    /\ callers[c].pc = "check"
    /\ callers' = [callers EXCEPT
                     ![c].pc = IF KeyAbsent(_cache_dataset, KeyOf(c))
                               THEN "build" ELSE "read_ds",
                     ![c].absent = KeyOf(c) \notin DOMAIN _cache_dataset]
    /\ UNCHANGED <<_cache_dataset, _cache_dataloader, nextId, lastReq, firstPair,
                   self, last>>

\* the call of _data_provider by thread c
Build(c) ==
    /\ callers[c].pc = "build"
    /\ \E r \in {_data_provider(TabeConfigs, callers[c].flag, callers[c].step_by_step,
                                DefaultContent, nextId)} :
         /\ callers' = [callers EXCEPT
                          ![c].pc = IF r.raised # "" THEN "raised" ELSE "store_ds",
                          ![c].raised = r.raised,
                          ![c].built_set = r.data_set,
                          ![c].built_loader = r.data_loader]
         /\ nextId' = IF r.raised # "" THEN nextId ELSE nextId + 1
    /\ UNCHANGED <<_cache_dataset, _cache_dataloader, lastReq, firstPair, self, last>>

\* _cache_dataset[key] = the Dataset built
StoreDataset(c) ==
    /\ callers[c].pc = "store_ds"
    /\ _cache_dataset' = Store(_cache_dataset, KeyOf(c), callers[c].built_set)
    /\ callers' = [callers EXCEPT ![c].pc = "store_dl"]
    /\ UNCHANGED <<_cache_dataloader, nextId, lastReq, firstPair, self, last>>

\* _cache_dataloader[key] = the DataLoader built
StoreLoader(c) ==
    /\ callers[c].pc = "store_dl"
    /\ _cache_dataloader' = Store(_cache_dataloader, KeyOf(c), callers[c].built_loader)
    /\ callers' = [callers EXCEPT ![c].pc = "read_ds"]
    /\ UNCHANGED <<_cache_dataset, nextId, lastReq, firstPair, self, last>>

\* the read of _cache_dataset[key] of the return statement
ReadDataset(c) ==
    /\ callers[c].pc = "read_ds"
    /\ callers' = [callers EXCEPT ![c].pc = "read_dl",
                                  ![c].data_set = _cache_dataset[KeyOf(c)]]
    /\ UNCHANGED <<_cache_dataset, _cache_dataloader, nextId, lastReq, firstPair,
                   self, last>>

\* the read of _cache_dataloader[key] of the return statement, and the return;
\* the key is missing when another thread has stored its Dataset only
ReadLoader(c) ==
    /\ callers[c].pc = "read_dl"
    /\ callers' = IF KeyOf(c) \in DOMAIN _cache_dataloader
                  THEN [callers EXCEPT ![c].pc = "done",
                                       ![c].data_loader = _cache_dataloader[KeyOf(c)]]
                  ELSE [callers EXCEPT ![c].pc = "raised", ![c].raised = "KeyError"]
    /\ UNCHANGED <<_cache_dataset, _cache_dataloader, nextId, lastReq, firstPair,
                   self, last>>

CallAny == \E c \in Callers : Call(c)

CheckAny == \E c \in Callers : Check(c)

BuildAny == \E c \in Callers : Build(c)

StoreDatasetAny == \E c \in Callers : StoreDataset(c)

StoreLoaderAny == \E c \in Callers : StoreLoader(c)

ReadDatasetAny == \E c \in Callers : ReadDataset(c)

ReadLoaderAny == \E c \in Callers : ReadLoader(c)

NextConc ==
    \/ CallAny \/ CheckAny \/ BuildAny \/ StoreDatasetAny \/ StoreLoaderAny
    \/ ReadDatasetAny \/ ReadLoaderAny

SpecConc == InitModule /\ [][NextConc]_vars

\* ===================================================================== claims

\* ---- the cache (SpecCache)

\* C1: every request that returns gets the pair that the first request with the
\* same (flag, step_by_step) got, whatever its config, and the entry under the
\* key of a served (flag, step_by_step) is still that pair: it was never
\* rebuilt, replaced or evicted.
C1_CacheIdempotence ==
    /\ (lastReq.flag # "" /\ lastReq.raised = "")
         => <<lastReq.data_set, lastReq.data_loader>>
              = firstPair[<<lastReq.flag, lastReq.step_by_step>>]
    /\ \A p \in DOMAIN firstPair :
         /\ CacheKey(p[1], p[2]) \in DOMAIN _cache_dataset
         /\ CacheKey(p[1], p[2]) \in DOMAIN _cache_dataloader
         /\ firstPair[p] = <<_cache_dataset[CacheKey(p[1], p[2])],
                             _cache_dataloader[CacheKey(p[1], p[2])]>>

\* a cache hit whose config asks for another batch size than the config that
\* built the entry
C1_Witness ==
    /\ lastReq.hit /\ lastReq.raised = ""
    /\ lastReq.flag = "test" /\ ~lastReq.step_by_step
    /\ lastReq.configs.batch_size # lastReq.data_loader.batch_size
    /\ lastReq.data_loader.id = firstPair[<<"test", FALSE>>][2].id

\* C2: every Loader returned by a request with step_by_step = True has batch
\* size 1 and shuffling disabled.
C2_StepwiseLoader ==
    (lastReq.flag # "" /\ lastReq.raised = "" /\ lastReq.step_by_step)
      => (lastReq.data_loader.batch_size = 1 /\ ~lastReq.data_loader.shuffle)

\* ---- the cache, continued (SpecCache)

\* the task types a pair is built for: forecast-style, anomaly detection and
\* classification
SupportedTasks == {"long_term_forecast", "anomaly_detection", "classification"}

\* C12: a request that builds a pair names a dataset identifier of the
\* registry and a supported task type; a cache-miss request that names any
\* other fails instead.
C12_UnknownConfigFails ==
    (lastReq.flag # "" /\ ~lastReq.hit
       /\ ~(lastReq.configs.data \in DOMAIN data_dict
            /\ lastReq.configs.task_name \in SupportedTasks))
      => (lastReq.raised # "" /\ ~lastReq.built)

\* the held-out evaluation splits of the shuffle rule
HeldOut == {"test", "TEST"}

\* C17: a request that builds a pair for a held-out evaluation split gets a
\* Loader that does not shuffle, also when it is not step-by-step; one that
\* builds a pair for another split and is not step-by-step gets a Loader that
\* shuffles and has the batch size of its config.
C17_ShuffleRule ==
    lastReq.built =>
        /\ lastReq.flag \in HeldOut => ~lastReq.data_loader.shuffle
        /\ (lastReq.flag \notin HeldOut /\ ~lastReq.step_by_step)
             => /\ lastReq.data_loader.shuffle
                /\ lastReq.data_loader.batch_size = lastReq.configs.batch_size

\* a pair built for the test split by a request that is not step-by-step and
\* asks for a batch of more than one
C17_Witness ==
    /\ lastReq.built /\ lastReq.flag = "test" /\ ~lastReq.step_by_step
    /\ lastReq.configs.batch_size > 1
    /\ lastReq.data_loader.batch_size = lastReq.configs.batch_size
    /\ ~lastReq.data_loader.shuffle

\* C18: requests with different (flag, step_by_step) are never served the same
\* pair.
C18_DistinctEntries ==
    \A p, q \in DOMAIN firstPair :
        p # q => /\ firstPair[p][1].id # firstPair[q][1].id
                 /\ firstPair[p][2].id # firstPair[q][2].id

\* ---- the TabeModel (Spec)

\* the dataset and the loader of the most recent get_data_provider call, and the
\* order in which an unshuffled loader draws
Identity(n) == [i \in 1 .. n |-> i]

SameLength(sf) ==
    /\ HLen(sf.truths) = HLen(sf.y_hat)
    /\ HLen(sf.y_hat) = HLen(sf.y_hat_cbm)
    /\ (sf.truths.kind = "array") = (sf.y_hat.kind = "array")
    /\ (sf.y_hat.kind = "array") = (sf.y_hat_cbm.kind = "array")

\* C3: after a completed train() or test() the truths, the ensemble predictions
\* and the combiner predictions hold the same number of entries (all three are
\* arrays of one length, or no train() has completed yet and none of them holds
\* an entry).
C3_HistoryLengths ==
    (last.op \in {"train", "test"} /\ last.raised = "") => SameLength(self)

\* a completed test() with an Adjuster that appended to a trained history
C3_Witness ==
    /\ last.op = "test" /\ last.raised = "" /\ self.adjuster_model
    /\ last.before >= 1 /\ HLen(self.truths) >= last.before + 2

\* C4: without an Adjuster the ensemble predictions equal the combiner
\* predictions entry by entry, and every proceed_onestep that returns (called
\* directly or by test()) returns an ensemble prediction and an adjusted
\* prediction equal to its combiner prediction.
C4_AdjusterBypass ==
    ~self.adjuster_model =>
        /\ self.y_hat.a = self.y_hat_cbm.a
        /\ (last.op = "proceed_onestep" /\ last.raised = "")
             => (last.ret.y_hat_tabe = last.ret.y_hat_cbm
                 /\ last.ret.y_hat_adj = last.ret.y_hat_cbm)
        /\ last.op = "test"
             => \A k \in 1 .. Len(last.out) :
                   /\ last.out[k].y_hat_tabe = last.out[k].y_hat_cbm
                   /\ last.out[k].y_hat_adj = last.out[k].y_hat_cbm

\* a completed test() without an Adjuster on a trained model, of two steps
C4_Witness ==
    /\ ~self.adjuster_model /\ last.op = "test" /\ last.raised = ""
    /\ last.before >= 1 /\ Len(last.out) >= 2
    /\ HLen(self.y_hat) = last.before + 2

AltTruths == Vals \cup {Sentinel}

Collaborators == {"combiner.proceed_onestep", "adjuster.proceed_onestep",
                  "combiner.train", "adjuster.train"}

\* C6: a proceed_onestep whose input or target window has a batch dimension
\* other than 1 raises AssertionError, calls neither the Combiner nor the
\* Adjuster, and leaves the model (its three history sequences included) as it
\* was.
C6_BatchAssertion ==
    [][ (last'.op = "proceed_onestep" /\ ~(last'.win.bx = 1 /\ last'.win.by = 1))
          => /\ last'.raised = "AssertionError"
             /\ \A k \in 1 .. Len(last'.calls) : last'.calls[k].fn \notin Collaborators
             /\ self' = self
      ]_vars

\* a step with a wrong batch dimension refused on a trained model
C6_Witness ==
    /\ last.op = "proceed_onestep" /\ last.raised = "AssertionError"
    /\ last.win.bx # 1 /\ last.win.by = 1
    /\ self.truths.kind = "array" /\ HLen(self.truths) >= 1

\* C7: a train() whose loader yields a number of steps other than the number of
\* truths raises AssertionError and leaves the three history sequences as they
\* were; a train() that completes leaves a combiner-prediction series as long
\* as the truths.
C7_TrainAssertion ==
    [][ (last'.op = "train" /\ lastReq'.raised = "")
          => LET ds == lastReq'.data_set
                 dl == lastReq'.data_loader
             IN /\ LoaderLen(ds, dl) # Len(TruthsOf(ds))
                     => /\ last'.raised = "AssertionError"
                        /\ self'.truths = self.truths
                        /\ self'.y_hat = self.y_hat
                        /\ self'.y_hat_cbm = self.y_hat_cbm
                /\ last'.raised = ""
                     => /\ self'.truths = Array(TruthsOf(ds))
                        /\ HLen(self'.y_hat_cbm) = Len(TruthsOf(ds))
      ]_vars

\* a train() refused because its loader yields one step more than there are
\* truths
C7_Witness ==
    /\ last.op = "train" /\ last.raised = "AssertionError"
    /\ lastReq.flag = "ensemble_train" /\ lastReq.raised = ""
    /\ LoaderLen(lastReq.data_set, lastReq.data_loader)
         = Len(TruthsOf(lastReq.data_set)) + 1

\* C8: a completed train() leaves in the history exactly the entries of this
\* training pass: the truths of the split, one combiner prediction per step of
\* the loader (that of the freshly trained combiner for that window), as many
\* ensemble predictions, and nothing recorded earlier.
C8_TrainReplaces ==
    [][ (last'.op = "train" /\ last'.raised = "")
          => LET ds == lastReq'.data_set
                 dl == lastReq'.data_loader
                 n == LoaderLen(ds, dl)
                 w0 == CombinerTrain(self.w)
             IN /\ last'.steps = n
                /\ self'.truths = Array(TruthsOf(ds))
                /\ self'.y_hat_cbm.kind = "array"
                /\ Len(self'.y_hat_cbm.a) = n
                /\ \A k \in 1 .. n :
                      self'.y_hat_cbm.a[k]
                        = CombinerPredict(w0, Batch(ds, dl, Identity(ds.n), k)).cbm
                /\ self'.y_hat.kind = "array"
                /\ Len(self'.y_hat.a) = n
                /\ ~self.adjuster_model => self'.y_hat = self'.y_hat_cbm
      ]_vars

\* a completed train() on a model whose history was longer than the training
\* pass
C8_Witness ==
    /\ last.op = "train" /\ last.raised = ""
    /\ last.before > HLen(self.truths)
    /\ HLen(self.truths) >= 1

\* C9 as stated: the history is empty at construction and no call ever makes
\* one of its sequences shorter.
C9_Monotone ==
    /\ HLen(self.truths) = 0 /\ HLen(self.y_hat) = 0 /\ HLen(self.y_hat_cbm) = 0
    /\ [][ /\ HLen(self'.truths) >= HLen(self.truths)
           /\ HLen(self'.y_hat) >= HLen(self.y_hat)
           /\ HLen(self'.y_hat_cbm) >= HLen(self.y_hat_cbm) ]_vars

\* C9, amended: the history holds no entry at construction, and no call makes
\* one of its sequences shorter except a completed train(), which replaces the
\* history by its training pass.
C9_MonotoneExceptTrain ==
    /\ HLen(self.truths) = 0 /\ HLen(self.y_hat) = 0 /\ HLen(self.y_hat_cbm) = 0
    /\ [][ ~(last'.op = "train" /\ last'.raised = "")
             => /\ HLen(self'.truths) >= HLen(self.truths)
                /\ HLen(self'.y_hat) >= HLen(self.y_hat)
                /\ HLen(self'.y_hat_cbm) >= HLen(self.y_hat_cbm) ]_vars

\* a test() that made a history of two entries longer
C9_Witness ==
    /\ last.op = "test" /\ last.before >= 2
    /\ HLen(self.truths) > last.before

\* C10: a completed test() on a trained model calls proceed_onestep once per
\* window of the test loader, in the loader's order and with training = True;
\* the history grows by the number of steps of the loader, its earlier entries
\* stay, and the k-th entry appended holds the truth of the k-th window and
\* the predictions returned for it.
C10_TestSteps ==
    [][ (last'.op = "test" /\ last'.raised = "" /\ self.truths.kind = "array")
          => LET ds == lastReq'.data_set
                 dl == lastReq'.data_loader
                 n == LoaderLen(ds, dl)
                 base == HLen(self.truths)
                 steps == SelectSeq(last'.calls, LAMBDA e : e.fn = "proceed_onestep")
             IN /\ Len(steps) = n
                /\ Len(last'.out) = n
                /\ \A k \in 1 .. n :
                      /\ steps[k].training
                      /\ steps[k].y = Batch(ds, dl, Identity(ds.n), k).y
                      /\ self'.truths.a[base + k] = Batch(ds, dl, Identity(ds.n), k).y
                      /\ self'.y_hat.a[base + k] = last'.out[k].y_hat_tabe
                      /\ self'.y_hat_cbm.a[base + k] = last'.out[k].y_hat_cbm
                /\ HLen(self'.truths) = base + n
                /\ HLen(self'.y_hat) = base + n
                /\ HLen(self'.y_hat_cbm) = base + n
                /\ SubSeq(self'.truths.a, 1, base) = self.truths.a
                /\ SubSeq(self'.y_hat.a, 1, base) = self.y_hat.a
                /\ SubSeq(self'.y_hat_cbm.a, 1, base) = self.y_hat_cbm.a
      ]_vars

\* a completed test() of two steps on a trained model
C10_Witness ==
    /\ last.op = "test" /\ last.raised = "" /\ last.steps = 2
    /\ last.before >= 1 /\ HLen(self.truths) = last.before + 2
    /\ last.out[1] # last.out[2]

\* ---- the TabeModel, continued (Spec)

\* C13: a proceed_onestep call that completes leaves the three series of the
\* history as they were with one entry more at the end: the truth of the
\* window, the corrected prediction it returns and the combiner's prediction it
\* returns.
C13_AppendsOne ==
    [][(last'.op = "proceed_onestep" /\ last'.raised = "")
         => /\ self.truths.kind = "array" /\ self.y_hat.kind = "array"
            /\ self.y_hat_cbm.kind = "array"
            /\ self'.truths = Array(Append(self.truths.a, last'.win.y))
            /\ self'.y_hat = Array(Append(self.y_hat.a, last'.ret.y_hat_tabe))
            /\ self'.y_hat_cbm = Array(Append(self.y_hat_cbm.a, last'.ret.y_hat_cbm))]_vars

\* a completed step on a history of at least one entry whose corrected
\* prediction is not the combiner's and whose three earlier first entries
\* are not all the new ones
C13_Witness ==
    /\ last.op = "proceed_onestep" /\ last.raised = "" /\ last.before >= 1
    /\ HistLen = last.before + 1
    /\ last.ret.y_hat_tabe # last.ret.y_hat_cbm
    /\ self.y_hat.a[HistLen] = last.ret.y_hat_tabe
    /\ self.y_hat_cbm.a[HistLen] = last.ret.y_hat_cbm
    /\ self.truths.a[HistLen] = last.win.y
    /\ self.truths.a[1] # last.win.y

\* the calls one step logs: its entry, the combiner, the adjuster if one is
\* configured, and the append if the step completed
StepCalls(adjuster_model, training, y, y_hat_cbm, y_hat_tabe, completed) ==
    <<Ev("proceed_onestep", training, y, 0),
      Ev("combiner.proceed_onestep", training, y, 0)>>
    \o (IF adjuster_model
        THEN <<Ev("adjuster.proceed_onestep", training, y, y_hat_cbm)>> ELSE <<>>)
    \o (IF completed THEN <<Ev("append", training, y, y_hat_tabe)>> ELSE <<>>)

\* the number of calls a completed step logs
StepSize == Len(StepCalls(self.adjuster_model, TRUE, 0, 0, 0, TRUE))

\* C14: a completed step calls the combiner once, then the adjuster once if
\* one is configured, with the truth of the window, the combiner's prediction
\* of this step and the training flag of the step, and appends to the history
\* after both; this holds for a direct call and for every step of test().
C14_CallOrder ==
    /\ (last.op = "proceed_onestep" /\ last.raised = "")
         => last.calls = StepCalls(self.adjuster_model, last.training, last.win.y,
                                   last.ret.y_hat_cbm, last.ret.y_hat_tabe, TRUE)
    /\ (last.op = "test" /\ last.raised = "")
         => /\ Len(last.calls) = last.steps * StepSize
            /\ \A t \in 1 .. last.steps :
                 SubSeq(last.calls, (t - 1) * StepSize + 1, t * StepSize)
                   = StepCalls(self.adjuster_model, TRUE, last.y[t],
                               last.out[t].y_hat_cbm, last.out[t].y_hat_tabe, TRUE)

\* a completed direct step and a completed test() of two steps, both with an
\* adjuster whose correction changes the prediction
C14_Witness ==
    /\ self.adjuster_model /\ last.raised = ""
    /\ \/ /\ last.op = "proceed_onestep" /\ Len(last.calls) = StepSize
          /\ last.ret.y_hat_tabe # last.ret.y_hat_cbm /\ ~last.training
       \/ /\ last.op = "test" /\ last.steps = MaxSteps
          /\ last.out[1].y_hat_tabe # last.out[1].y_hat_cbm

\* no train() has completed on the model
Untrained(sf) == sf.y_hat_cbm.kind = "unset"

\* the calls of a log without the predictions passed
Called(calls) == [i \in DOMAIN calls |-> <<calls[i].fn, calls[i].training, calls[i].y>>]

\* the history of sf
History(sf) == <<sf.truths, sf.y_hat, sf.y_hat_cbm>>

\* C19: on a model no train() has completed on, a proceed_onestep call and a
\* test() over a loader that is not empty raise and leave the history without
\* an entry; for a window of batch dimension one the error is the
\* AttributeError of the first append, raised after the combiner, and the
\* adjuster if one is configured, have been called.  So no test() of one step
\* or more completes before a train() has.
C19_UntrainedAborts ==
    [][/\ (Untrained(self) /\ last'.op = "proceed_onestep")
            => /\ last'.raised # ""
               /\ History(self') = History(self)
               /\ (last'.win.bx = 1 /\ last'.win.by = 1)
                    => /\ last'.raised = "AttributeError"
                       /\ Called(last'.calls)
                            = Called(StepCalls(self.adjuster_model, last'.training,
                                               last'.win.y, 0, 0, FALSE))
       /\ (Untrained(self) /\ last'.op = "test" /\ last'.steps >= 1)
            => /\ last'.raised = "AttributeError"
               /\ History(self') = History(self)
               /\ Untrained(self')
               /\ Called(last'.calls)
                    = Called(StepCalls(self.adjuster_model, TRUE, last'.y[1],
                                       0, 0, FALSE))]_vars

\* a step on an untrained model with an adjuster that raised after both
\* collaborators were called
C19_Witness ==
    /\ Untrained(self) /\ self.adjuster_model
    /\ last.op \in {"proceed_onestep", "test"} /\ last.steps >= 1
    /\ last.raised = "AttributeError"
    /\ Len(last.calls) = StepSize - 1
    /\ last.calls[Len(last.calls)].fn = "adjuster.proceed_onestep"

\* ---- the return of test() (Spec)

\* the feature column that holds the target
TargetColumn == n_features

\* the rows of a matrix as wide as the features that is zero except for its
\* target column, which holds the series
ZeroButTarget(series) ==
    [t \in DOMAIN series |->
        [c \in 1 .. n_features |-> IF c = TargetColumn THEN series[t] ELSE 0]]

\* the target column of the inverse transform of that matrix
Reconstructed(series) ==
    [t \in DOMAIN series |-> inverse_transform(ZeroButTarget(series))[t][TargetColumn]]

\* the series of a completed test() before its inversion: the truths and the
\* arrays as the loop left them
Scaled(l) ==
    [y |-> l.y,
     tabe_pred |-> [t \in DOMAIN l.ret.tabe_pred |->
                      IF t <= Len(l.out) THEN l.out[t].y_hat_tabe ELSE Sentinel],
     y_hat_cbm |-> [t \in DOMAIN l.ret.y_hat_cbm |->
                      IF t <= Len(l.out) THEN l.out[t].y_hat_cbm ELSE Sentinel],
     y_hat_bsm |-> [i \in DOMAIN l.ret.y_hat_bsm |->
                      [t \in DOMAIN l.ret.y_hat_bsm[i] |->
                         IF t <= Len(l.out) THEN l.out[t].y_hat_bsm[i] ELSE Sentinel]]]

\* the entries of two series that a step wrote are the same
SameWritten(l, a, b) ==
    /\ Len(a) = Len(l.y) /\ Len(b) = Len(l.y)
    /\ \A t \in 1 .. Len(l.out) : a[t] = b[t]

C15_HistoryStaysScaled ==
    [][(last'.op = "test" /\ last'.raised = "") =>
         IF last'.steps = 0 THEN History(self') = History(self)
         ELSE /\ self'.truths
                   = Array(self.truths.a \o SubSeq(last'.y, 1, last'.steps))
              /\ self'.y_hat
                   = Array(self.y_hat.a
                           \o [t \in 1 .. last'.steps |-> last'.out[t].y_hat_tabe])
              /\ self'.y_hat_cbm
                   = Array(self.y_hat_cbm.a
                           \o [t \in 1 .. last'.steps |-> last'.out[t].y_hat_cbm])]_vars

\* a completed test() of one step or more that returned inverted series, which
\* are not the entries that the history holds for these steps
C15_Witness ==
    /\ last.op = "test" /\ last.raised = "" /\ last.steps >= 1
    /\ last.ret.inverted
    /\ HistLen = last.before + last.steps
    /\ \E t \in 1 .. last.steps :
         /\ last.ret.y[t] # self.truths.a[last.before + t]
         /\ last.ret.tabe_pred[t] # self.y_hat.a[last.before + t]

\* C20: when test() completes, the loader has yielded as many steps as the
\* returned arrays are long, and entry t of every returned array is what step
\* t returned.
C20_ArraysFullyWritten ==
    (last.op = "test" /\ last.raised = "") =>
        /\ last.steps = Len(last.y)
        /\ Len(last.out) = Len(last.ret.tabe_pred)
        /\ Len(last.out) = Len(last.ret.y_hat_cbm)
        /\ \A i \in 1 .. NBase : Len(last.out) = Len(last.ret.y_hat_bsm[i])
        /\ ~last.ret.inverted =>
             \A t \in 1 .. Len(last.out) :
                /\ last.ret.tabe_pred[t] = last.out[t].y_hat_tabe
                /\ last.ret.y_hat_cbm[t] = last.out[t].y_hat_cbm
                /\ \A i \in 1 .. NBase : last.ret.y_hat_bsm[i][t] = last.out[t].y_hat_bsm[i]

\* ---- concurrent callers (SpecConc)

\* two threads whose calls returned, for the same key
ReturnedSameKey(c, d) ==
    /\ c # d /\ callers[c].pc = "done" /\ callers[d].pc = "done"
    /\ KeyOf(c) = KeyOf(d)

SamePair(c, d) ==
    /\ callers[c].data_set.id = callers[d].data_set.id
    /\ callers[c].data_loader.id = callers[d].data_loader.id

\* two threads that asked for the key both found it absent and both built a
\* pair
Raced(key) ==
    \E e, f \in Callers :
        /\ e # f /\ KeyOf(e) = key /\ KeyOf(f) = key
        /\ callers[e].absent /\ callers[f].absent
        /\ callers[e].built_set.id # 0 /\ callers[f].built_set.id # 0
        /\ callers[e].built_set.id # callers[f].built_set.id

\* C16: two calls for one key return different objects only if two calls for
\* the key both found it absent, the second before the first had stored its
\* pair, and both built one; calls that ran with no other call in progress
\* all return the same pair, and none of them raises.
C16_RaceOnlyWhenConcurrent ==
    /\ \A c, d \in Callers :
         ReturnedSameKey(c, d) =>
            /\ ~SamePair(c, d) => Raced(KeyOf(c))
            /\ (~callers[c].overlapped /\ ~callers[d].overlapped) => SamePair(c, d)
    /\ \A c \in Callers :
         callers[c].pc = "raised" => callers[c].overlapped

\* two threads asked for the same key, both found it absent, both built a
\* pair and each returned its own
C16_Witness ==
    \E c, d \in Callers :
        /\ ReturnedSameKey(c, d)
        /\ callers[c].absent /\ callers[d].absent
        /\ callers[c].data_set.id # callers[d].data_set.id
        /\ callers[c].data_loader.id # callers[d].data_loader.id
        /\ callers[c].data_set.id = callers[c].built_set.id
        /\ callers[d].data_set.id = callers[d].built_set.id

====
